---- MODULE Spec2Model ----
(***************************************************************************)
(* Model of checks/libs/wmi/sampler.py: the WMISampler sampling cycle, the *)
(* class-level connection cache, the query engine with its counter-type    *)
(* cache, and the WQL filter compiler.                                     *)
(***************************************************************************)
EXTENDS Integers, Sequences, FiniteSets, TLC

\* ------------------------------------------------------------------------
\* Bounds
\* ------------------------------------------------------------------------
\* sample() calls started per sampler
MaxCalls == 3

\* sample() calls started per sampler when two samplers run in parallel
MaxPoolCalls == 1

\* filter groups of a FilterSpec
MaxGroups == 2

\* elements of a list value of a filter
MaxListLen == 2

\* items set on the CaseInsensitiveDict under test
MaxBagOps == 3

\* sampler instances of the process
Samplers == {1, 2}

\* connection keys "{host}:{namespace}:{username}"
Keys == {"k1", "k2"}

\* ------------------------------------------------------------------------
\* Values, property names, CaseInsensitiveDict
\* ------------------------------------------------------------------------
\* a value is a record [t, n]: t = "null" (None), "int" (provider number),
\* "str" (text holding the number n), "text" (text that is no number),
\* "float" (python float n)
NoneV == [t |-> "null", n |-> 0]

IntV(n) == [t |-> "int", n |-> n]

\* str.lower() on the property names that occur
Lower(name) ==
    CASE name \in {"Val", "VAL", "val"} -> "val"
      [] name \in {"Timestamp_Sys100NS", "timestamp_sys100ns"} -> "timestamp_sys100ns"
      [] name \in {"Frequency_Sys100NS", "frequency_sys100ns"} -> "frequency_sys100ns"
      [] name \in {"Name", "name"} -> "name"
      [] OTHER -> name

\* CaseInsensitiveDict(): a function whose domain holds lowered keys only
EmptyDict == [k \in {} |-> NoneV]

\* dict.__setitem__: the key stored as given
DictSetExact(d, key, value) ==
    [k \in (DOMAIN d) \cup {key} |-> IF k = key THEN value ELSE d[k]]

\* CaseInsensitiveDict.__setitem__
DictSet(d, key, value) ==
    [k \in (DOMAIN d) \cup {Lower(key)} |-> IF k = Lower(key) THEN value ELSE d[k]]

\* CaseInsensitiveDict.__contains__
DictContains(d, key) == Lower(key) \in DOMAIN d

\* CaseInsensitiveDict.get: None for a key that is not there
DictGet(d, key) == IF Lower(key) \in DOMAIN d THEN d[Lower(key)] ELSE NoneV

\* float(wmi_property.Value), falling back to the value itself on
\* TypeError (None) and ValueError (text that is no number)
Coerce(v) ==
    IF v.t \in {"int", "str", "float"} THEN [t |-> "float", n |-> v.n] ELSE v

\* ------------------------------------------------------------------------
\* The provider: rows of fields (Name, Value, CounterType qualifier; 0 means
\* the property carries no CounterType qualifier)
\* ------------------------------------------------------------------------
Field(name, value, ct) == [Name |-> name, Value |-> value, CounterType |-> ct]

RowA == << Field("Val", IntV(1), 1) >>

RowB == << Field("VAL", IntV(2), 2) >>

RowC == << Field("Timestamp_Sys100NS", IntV(1), 0) >>

\* what connection.ExecQuery may return
ProviderResults == { <<>>, <<RowA>>, <<RowA, RowB>>, <<RowC>> }

\* what it returns when several samplers share the provider
PoolResults == { <<RowA>> }

\* an Optional sample / Optional counter-type dict
NoSample == [none |-> TRUE, rows |-> <<>>]

SomeSample(rows) == [none |-> FALSE, rows |-> rows]

NoTypes == [none |-> TRUE, map |-> EmptyDict]

SomeTypes(m) == [none |-> FALSE, map |-> m]

\* an Optional clause
NoClause == [none |-> TRUE, clause |-> <<>>]

SomeClause(c) == [none |-> FALSE, clause |-> c]

\* the filters samplers are constructed with: the default, and one group
\* {"Name": "x"}
SamplerFilters ==
    { <<>>,
      << << [prop |-> "Name",
             value |-> [k |-> "lit", op |-> "", s |-> "x", items |-> <<>>]] >> >> }

\* what _format_filter leaves of the list it is handed: build_where_clause
\* pops every group off it
ConsumedFilters(fltrs) == <<>>

\* python truthiness of a sample: None and [] are falsy
Truthy(sample) == ~sample.none /\ Len(sample.rows) > 0

VARIABLES
    samplers,                \* the sampler instances constructed
    is_raw_perf_class,       \* [s] "_PERFRAWDATA_" in class_name.upper()
    connection_key,          \* [s] the sampler's connection key
    previous_sample,         \* [s]
    current_sample,          \* [s]
    property_counter_types,  \* [s] None or a CaseInsensitiveDict
    sampling,                \* [s] self._sampling
    pc,                      \* [s] position inside sample() / _query()
    phase,                   \* [s] "boot" or "main": which query of sample()
    includes_qualifiers,     \* [s] local of _query
    connection,              \* [s] local of get_connection (0: none)
    raw_results,             \* [s] local of _query
    results,                 \* [s] return value of _query
    wmi_connections,         \* [key] WMISampler._wmi_connections
    conn_key,                \* [connection] key it was connected for
    next_conn,               \* next connection the locator hands out
    calls,                   \* [s] sample() calls started
    call_previous,           \* [s] previous_sample at entry of the call
    call_current,            \* [s] current_sample at entry of the call
    call_queries,            \* [s] results of the queries the call issued
    call_outcome,            \* [s] how the last sample() call ended
    qualifier_queries,       \* [s] queries run with flag_use_amended_qualifiers
    last_query,              \* [s] how the last _query ended
    last_read,               \* result of the last length/iterate/index call
    filters,                 \* the FilterSpec handed to _format_filter
    and_props,               \* its and_props argument
    clause,                  \* the clause _format_filter returned
    filter_pc,               \* "input" before the call, "done" after it
    bag,                     \* a CaseInsensitiveDict under test
    bag_log,                 \* the (key, value) pairs set on it, in order
    bag_op,                  \* the last operation on it and its result
    ok_calls,                \* [s] sample() calls that returned normally
    sampler_filters,         \* [s] self.filters
    formatted_filters,       \* [s] self._formatted_filters, None or a clause
    query_filters,           \* [s] the clause of the last query text built
    formatted                \* what the last _format_property_values returned

vars == << samplers, is_raw_perf_class, connection_key, previous_sample,
           current_sample, property_counter_types, sampling, pc, phase,
           includes_qualifiers, connection, raw_results, results,
           wmi_connections, conn_key, next_conn, calls, call_previous,
           call_current, call_queries, call_outcome, qualifier_queries,
           last_query, last_read, filters, and_props, clause, filter_pc,
           bag, bag_log, bag_op, ok_calls, sampler_filters,
           formatted_filters, query_filters, formatted >>

text_vars == << sampler_filters, formatted_filters, query_filters >>

bag_vars == << bag, bag_log, bag_op >>

format_vars == << formatted >>

filter_vars == << filters, and_props, clause, filter_pc >>

config_vars == << samplers, is_raw_perf_class, connection_key >>

sample_vars == << previous_sample, current_sample >>

pool_vars == << wmi_connections, conn_key, next_conn >>

call_vars == << calls, call_previous, call_current >>

NoRead == [op |-> "none", s |-> 0, index |-> 0, sampling |-> FALSE,
           res |-> "none", n |-> 0]

\* a float, as _parse_results stores it
FloatV(n) == [t |-> "float", n |-> n]

\* no _format_property_values call yet
NoFormat == [res |-> "none", bag |-> EmptyDict]

\* WMISampler.__init__ for every sampler, with an empty connection cache
InitState ==
    /\ is_raw_perf_class \in [Samplers -> BOOLEAN]
    /\ connection_key \in [Samplers -> Keys]
    /\ previous_sample = [s \in Samplers |-> NoSample]
    /\ current_sample = [s \in Samplers |-> NoSample]
    /\ property_counter_types = [s \in Samplers |-> NoTypes]
    /\ sampling = [s \in Samplers |-> FALSE]
    /\ pc = [s \in Samplers |-> "idle"]
    /\ phase = [s \in Samplers |-> "main"]
    /\ includes_qualifiers = [s \in Samplers |-> FALSE]
    /\ connection = [s \in Samplers |-> 0]
    /\ raw_results = [s \in Samplers |-> <<>>]
    /\ results = [s \in Samplers |-> <<>>]
    /\ wmi_connections = [k \in Keys |-> <<>>]
    /\ conn_key = <<>>
    /\ next_conn = 1
    /\ calls = [s \in Samplers |-> 0]
    /\ call_previous = [s \in Samplers |-> NoSample]
    /\ call_current = [s \in Samplers |-> NoSample]
    /\ call_queries = [s \in Samplers |-> <<>>]
    /\ call_outcome = [s \in Samplers |-> "none"]
    /\ qualifier_queries = [s \in Samplers |-> 0]
    /\ last_query = [s \in Samplers |-> "none"]
    /\ last_read = NoRead
    /\ ok_calls = [s \in Samplers |-> 0]
    /\ sampler_filters \in [Samplers -> SamplerFilters]
    /\ formatted_filters = [s \in Samplers |-> NoClause]
    /\ query_filters = [s \in Samplers |-> NoClause]
    /\ formatted = NoFormat

\* no bag operation yet
NoBagOp == [op |-> "none", key |-> "", value |-> NoneV, found |-> FALSE]

\* no filter being compiled, and an empty bag
NoFilter ==
    /\ filters = <<>>
    /\ and_props = <<>>
    /\ clause = <<>>
    /\ filter_pc = "input"
    /\ bag = EmptyDict
    /\ bag_log = <<>>
    /\ bag_op = NoBagOp

\* one sampler in the process; which key it has makes no difference
Init ==
    /\ samplers = {1}
    /\ InitState
    /\ NoFilter
    /\ connection_key[1] = "k1"
    /\ \A s \in Samplers \ samplers :
          /\ ~is_raw_perf_class[s]
          /\ connection_key[s] = "k1"
          /\ sampler_filters[s] = <<>>

\* two samplers in the process, run by two threads: the first with key
\* k1, raw or not, the second with either key and not raw (a raw class
\* only adds the bootstrap query)
InitPool ==
    /\ samplers = Samplers
    /\ InitState
    /\ NoFilter
    /\ \A s \in Samplers : sampler_filters[s] = <<>>
    /\ connection_key[1] = "k1"
    /\ ~is_raw_perf_class[2]


\* ------------------------------------------------------------------------
\* _format_filter
\* ------------------------------------------------------------------------
\* A filter value is a literal, an (operator, literal) tuple, or a list of
\* literals and tuples.  A group (a dict) is
\* the sequence of its (property, value) items in the order popitem()
\* returns them, last item first; every order is an input.
Lit(str) == [k |-> "lit", op |-> "", s |-> str, items |-> <<>>]

Tup(oper, str) == [k |-> "tuple", op |-> oper, s |-> str, items |-> <<>>]

List(items) == [k |-> "list", op |-> "", s |-> "", items |-> items]

\* "'%' in value" on the literals that occur
HasWildcard(str) == str \in {"%w"}

\* "p.lower() in prop.lower()" on the names that occur
LowerContains(prop, p) ==
    \/ Lower(p) = Lower(prop)
    \/ Lower(p) = "name" /\ prop \in {"Name", "name", "DisplayName"}

\* the elements list values are made of, and the list values themselves:
\* the prefixes of one list, so that their elements differ pairwise
ListItems == << Lit("x"), Tup("<", "y"), Lit("%w"), Lit("z") >>

ListValues == { List(SubSeq(ListItems, 1, n)) : n \in 0..MaxListLen }

FilterValues ==
    { Lit("x"), Tup("<", "y") } \cup ListValues

FilterProps == {"Name", "Id"}

Item(prop, value) == [prop |-> prop, value |-> value]

\* the groups: dicts over FilterProps
FilterGroups ==
    { <<>> }
    \cup { << Item(p, v) >> : p \in FilterProps, v \in FilterValues }
    \cup { << Item(pq[1], v), Item(pq[2], w) >> :
             pq \in { x \in FilterProps \X FilterProps : x[1] # x[2] },
             v \in FilterValues, w \in FilterValues }

\* the clause is a sequence of tokens: "(", ")", "AND", "OR", "WHERE", and
\* one token per comparison "{property} {cmp} '{constant}'"
Tok(kind) == [k |-> kind, prop |-> "", op |-> "", val |-> ""]

Cmp(prop, oper, val) == [k |-> "cmp", prop |-> prop, op |-> oper, val |-> val]

\* the operator chosen for a value (lines 326-332)
Oper(value) ==
    IF value.k = "tuple" THEN value.op
    ELSE IF value.k = "lit" /\ HasWildcard(value.s) THEN "LIKE"
    ELSE "="

\* one element of internal_filter, formatted (lines 338-351)
ElementClause(prop, oper, x) ==
    IF x.k = "tuple" THEN Cmp(prop, x.op, x.s)
    ELSE IF HasWildcard(x.s) THEN Cmp(prop, "LIKE", x.s)
    ELSE Cmp(prop, oper, x.s)

\* bool_op left at ' OR ' whatever and_props holds
BoolOpOr(prop, andProps) == "OR"

\* bool_op (lines 343-347)
BoolOp(prop, andProps) ==
    IF \E i \in 1..Len(andProps) : LowerContains(prop, andProps[i]) THEN "AND" ELSE "OR"

\* bool_op.join([...])
RECURSIVE Join(_, _)
Join(sep, parts) ==
    IF parts = <<>> THEN <<>>
    ELSE IF Len(parts) = 1 THEN << parts[1] >>
    ELSE << parts[1], Tok(sep) >> \o Join(sep, Tail(parts))

\* the text one non-empty list value adds to wql (lines 349-358)
ListClause(prop, oper, items, andProps) ==
    LET joined == Join(BoolOp(prop, andProps),
                       [i \in 1..Len(items) |-> ElementClause(prop, oper, items[i])])
    IN  IF BoolOp(prop, andProps) = "OR"
        THEN << Tok("(") >> \o joined \o << Tok(")") >>
        ELSE joined

\* the while loop of build_where_clause (lines 323-366); an empty list
\* value continues the loop before "if f: wql += ' AND '"
RECURSIVE GroupClause(_, _, _)
GroupClause(f, wql, andProps) ==
    IF f = <<>> THEN wql
    ELSE LET it == f[Len(f)]
             rest == SubSeq(f, 1, Len(f) - 1)
             more == IF rest # <<>> THEN << Tok("AND") >> ELSE <<>>
         IN  IF it.value.k = "list"
             THEN IF Len(it.value.items) = 0
                  THEN GroupClause(rest, wql, andProps)
                  ELSE GroupClause(rest,
                          wql \o ListClause(it.prop, Oper(it.value), it.value.items, andProps)
                              \o more, andProps)
             ELSE GroupClause(rest,
                     wql \o << Cmp(it.prop, Oper(it.value), it.value.s) >> \o more, andProps)

\* the trailing AND left in place
TrimNothing(wql) == wql

\* "if wql.endswith(' AND '): wql = wql[:-5]"
TrimAnd(wql) ==
    IF wql # <<>> /\ wql[Len(wql)].k = "AND" THEN SubSeq(wql, 1, Len(wql) - 1) ELSE wql

\* build_where_clause: fltr.pop() takes the last group
RECURSIVE BuildWhereClause(_, _)
BuildWhereClause(fltr, andProps) ==
    LET f == fltr[Len(fltr)]
        rest == SubSeq(fltr, 1, Len(fltr) - 1)
        wql == TrimAnd(GroupClause(f, <<>>, andProps))
    IN  IF Len(rest) = 0
        THEN << Tok("(") >> \o wql \o << Tok(")") >>
        ELSE << Tok("(") >> \o wql \o << Tok(")"), Tok("OR") >>
             \o BuildWhereClause(rest, andProps)

\* _format_filter(filters, and_props); the empty string is the empty clause
FormatFilter(fltrs, andProps) ==
    IF fltrs = <<>> THEN <<>>
    ELSE << Tok("WHERE") >> \o BuildWhereClause(fltrs, andProps)

\* ------------------------------------------------------------------------
\* _parse_results
\* ------------------------------------------------------------------------
\* self.property_names: the requested names, extended for raw classes
PropertyNames(s) ==
    IF is_raw_perf_class[s]
    THEN << "Val", "Timestamp_Sys100NS", "Frequency_Sys100NS" >>
    ELSE << "Val" >>

\* item = CaseInsensitiveDict(); item[prop_name] = None for every name
RECURSIVE SeedItem(_, _)
SeedItem(names, item) ==
    IF names = <<>> THEN item
    ELSE SeedItem(Tail(names), DictSet(item, Head(names), NoneV))

\* the qualifier branch taken for one wmi_property
ShouldGetQualifierType(qualifiers, types, name) ==
    qualifiers /\ ~DictContains(types, name)

\* one pass of "for wmi_property in res.Properties_": the counter types
\* after the pass
RECURSIVE RowTypes(_, _, _)
RowTypes(fields, qualifiers, types) ==
    IF fields = <<>> THEN types
    ELSE LET f == Head(fields)
             t == IF ShouldGetQualifierType(qualifiers, types, f.Name)
                     /\ f.CounterType # 0
                  THEN DictSet(types, f.Name, f.CounterType)
                  ELSE types
         IN  RowTypes(Tail(fields), qualifiers, t)

\* the same pass: the item after it
RECURSIVE RowItem(_, _)
RowItem(fields, item) ==
    IF fields = <<>> THEN item
    ELSE RowItem(Tail(fields), DictSet(item, Head(fields).Name, Coerce(Head(fields).Value)))

\* counter types after parsing the rows
RECURSIVE ParsedTypes(_, _, _)
ParsedTypes(rows, qualifiers, types) ==
    IF rows = <<>> THEN types
    ELSE ParsedTypes(Tail(rows), qualifiers, RowTypes(Head(rows), qualifiers, types))

\* the items built without the seeding loop
ParsedItemsUnseeded(s, rows) ==
    [i \in 1..Len(rows) |-> RowItem(rows[i], EmptyDict)]

\* the list of items _parse_results returns
ParsedItems(s, rows) ==
    [i \in 1..Len(rows) |-> RowItem(rows[i], SeedItem(PropertyNames(s), EmptyDict))]

\* ------------------------------------------------------------------------
\* sample()
\* ------------------------------------------------------------------------
\* the initial sample never taken
NeedsInitialSampleNever(s) == FALSE

\* "if self.is_raw_perf_class and not self.previous_sample"
NeedsInitialSample(s) == is_raw_perf_class[s] /\ ~Truthy(previous_sample[s])

\* sample() up to the first statement after the if
SampleBegin(s, limit) ==
    /\ s \in samplers
    /\ pc[s] = "idle"
    /\ calls[s] < limit
    /\ sampling' = [sampling EXCEPT ![s] = TRUE]
    /\ calls' = [calls EXCEPT ![s] = @ + 1]
    /\ call_previous' = [call_previous EXCEPT ![s] = previous_sample[s]]
    /\ call_current' = [call_current EXCEPT ![s] = current_sample[s]]
    /\ call_queries' = [call_queries EXCEPT ![s] = <<>>]
    /\ call_outcome' = [call_outcome EXCEPT ![s] = "running"]
    /\ IF NeedsInitialSample(s)
       THEN /\ pc' = [pc EXCEPT ![s] = "query"]
            /\ phase' = [phase EXCEPT ![s] = "boot"]
       ELSE /\ pc' = [pc EXCEPT ![s] = "shift"]
            /\ phase' = [phase EXCEPT ![s] = "main"]
    /\ last_read' = NoRead
    /\ UNCHANGED << config_vars, format_vars, filter_vars, bag_vars, ok_calls, text_vars, sample_vars, property_counter_types,
                    includes_qualifiers, connection, raw_results, results,
                    pool_vars, qualifier_queries, last_query >>

\* the shift left out: previous_sample keeps its value
ShiftNothing(s) ==
    /\ s \in samplers
    /\ pc[s] = "shift"
    /\ pc' = [pc EXCEPT ![s] = "query"]
    /\ phase' = [phase EXCEPT ![s] = "main"]
    /\ last_read' = NoRead
    /\ UNCHANGED << config_vars, format_vars, filter_vars, bag_vars, ok_calls, text_vars, sample_vars, property_counter_types,
                    sampling, includes_qualifiers, connection, raw_results,
                    results, pool_vars, call_vars, call_queries, call_outcome,
                    qualifier_queries, last_query >>

\* self.previous_sample = self.current_sample
Shift(s) ==
    /\ s \in samplers
    /\ pc[s] = "shift"
    /\ previous_sample' = [previous_sample EXCEPT ![s] = current_sample[s]]
    /\ pc' = [pc EXCEPT ![s] = "query"]
    /\ phase' = [phase EXCEPT ![s] = "main"]
    /\ last_read' = NoRead
    /\ UNCHANGED << config_vars, format_vars, filter_vars, bag_vars, ok_calls, text_vars, current_sample, property_counter_types,
                    sampling, includes_qualifiers, connection, raw_results,
                    results, pool_vars, call_vars, call_queries, call_outcome,
                    qualifier_queries, last_query >>

\* ------------------------------------------------------------------------
\* _query() and get_connection()
\* ------------------------------------------------------------------------
\* qualifiers requested by every query of a raw class
IncludesQualifiersAlways(s) == is_raw_perf_class[s]

\* "self.is_raw_perf_class and self.property_counter_types is None"
IncludesQualifiers(s) == is_raw_perf_class[s] /\ property_counter_types[s].none

\* no except clause around the body of _query
QueryCatchesNothing(e) == FALSE

\* "except pywintypes.com_error" around the body of _query
QueryCatches(e) == e = "com_error"

\* an exception e raised inside the try of _query: caught there (results =
\* []), or propagated through sample(), whose except clause re-raises and
\* whose else clause (self._sampling = False) does not run
Raise(s, e) ==
    IF QueryCatches(e)
    THEN /\ results' = [results EXCEPT ![s] = <<>>]
         /\ last_query' = [last_query EXCEPT ![s] = e]
         /\ pc' = [pc EXCEPT ![s] = "return"]
         /\ UNCHANGED << call_outcome >>
    ELSE /\ pc' = [pc EXCEPT ![s] = "idle"]
         /\ call_outcome' = [call_outcome EXCEPT ![s] = e]
         /\ last_query' = [last_query EXCEPT ![s] = e]
         /\ UNCHANGED << results >>

\* self.filters after formatted_filters compiled them: the compiler is
\* handed "deepcopy(self.filters)"
FiltersConsumed(s) == ConsumedFilters(sampler_filters[s])

FiltersKept(s) == sampler_filters[s]

\* self._and_props: the default of __init__
SamplerAndProps == <<>>

\* "if not self._formatted_filters": None and "" are falsy
NeedsFormatting(s) ==
    formatted_filters[s].none \/ formatted_filters[s].clause = <<>>

\* _query up to the with statement: the query text, built with the
\* formatted_filters property, then the flags
QueryBegin(s) ==
    /\ s \in samplers
    /\ pc[s] = "query"
    /\ IF NeedsFormatting(s)
       THEN /\ formatted_filters' = [formatted_filters EXCEPT ![s] =
                  SomeClause(FormatFilter(sampler_filters[s], SamplerAndProps))]
            /\ sampler_filters' = [sampler_filters EXCEPT ![s] = FiltersKept(s)]
       ELSE UNCHANGED << formatted_filters, sampler_filters >>
    /\ query_filters' = [query_filters EXCEPT ![s] = formatted_filters'[s]]
    /\ includes_qualifiers' = [includes_qualifiers EXCEPT ![s] = IncludesQualifiers(s)]
    /\ IF IncludesQualifiers(s)
       THEN /\ property_counter_types' =
                  [property_counter_types EXCEPT ![s] = SomeTypes(EmptyDict)]
            /\ qualifier_queries' = [qualifier_queries EXCEPT ![s] = @ + 1]
       ELSE UNCHANGED << property_counter_types, qualifier_queries >>
    /\ pc' = [pc EXCEPT ![s] = "connect"]
    /\ last_read' = NoRead
    /\ UNCHANGED << config_vars, format_vars, filter_vars, bag_vars, ok_calls, sample_vars,
                    sampling, phase, connection, raw_results, results,
                    pool_vars, call_vars, call_queries, call_outcome,
                    last_query >>

\* the free-list never looked at: every acquire connects anew
CheckAvailableNever(s) ==
    /\ s \in samplers
    /\ pc[s] = "connect"
    /\ pc' = [pc EXCEPT ![s] = "new"]
    /\ last_read' = NoRead
    /\ UNCHANGED << config_vars, format_vars, filter_vars, bag_vars, ok_calls, text_vars, sample_vars, property_counter_types, sampling,
                    phase, includes_qualifiers, connection, raw_results,
                    results, pool_vars, call_vars, call_queries, call_outcome,
                    qualifier_queries, last_query >>

\* get_connection: "if available_connections:"
CheckAvailable(s) ==
    /\ s \in samplers
    /\ pc[s] = "connect"
    /\ pc' = [pc EXCEPT ![s] =
                IF wmi_connections[connection_key[s]] # <<>> THEN "pop" ELSE "new"]
    /\ last_read' = NoRead
    /\ UNCHANGED << config_vars, format_vars, filter_vars, bag_vars, ok_calls, text_vars, sample_vars, property_counter_types, sampling,
                    phase, includes_qualifiers, connection, raw_results,
                    results, pool_vars, call_vars, call_queries, call_outcome,
                    qualifier_queries, last_query >>

\* get_connection: "connection = available_connections.pop()"; list.pop()
\* on an empty list raises IndexError
PopConnection(s) ==
    /\ s \in samplers
    /\ pc[s] = "pop"
    /\ LET free == wmi_connections[connection_key[s]] IN
       IF free # <<>>
       THEN /\ connection' = [connection EXCEPT ![s] = free[Len(free)]]
            /\ wmi_connections' = [wmi_connections EXCEPT
                                     ![connection_key[s]] = SubSeq(free, 1, Len(free) - 1)]
            /\ pc' = [pc EXCEPT ![s] = "exec"]
            /\ UNCHANGED << results, call_outcome, last_query >>
       ELSE /\ Raise(s, "IndexError")
            /\ UNCHANGED << connection, wmi_connections >>
    /\ last_read' = NoRead
    /\ UNCHANGED << config_vars, format_vars, filter_vars, bag_vars, ok_calls, text_vars, sample_vars, property_counter_types, sampling,
                    phase, includes_qualifiers, raw_results, conn_key,
                    next_conn, call_vars, call_queries, qualifier_queries >>

\* get_connection: "locator.ConnectServer(...)", which connects or raises
\* com_error
ConnectServer(s, ok) ==
    /\ s \in samplers
    /\ pc[s] = "new"
    /\ IF ok
       THEN /\ connection' = [connection EXCEPT ![s] = next_conn]
            /\ conn_key' = Append(conn_key, connection_key[s])
            /\ next_conn' = next_conn + 1
            /\ pc' = [pc EXCEPT ![s] = "exec"]
            /\ UNCHANGED << results, call_outcome, last_query >>
       ELSE /\ Raise(s, "com_error")
            /\ UNCHANGED << connection, conn_key, next_conn >>
    /\ last_read' = NoRead
    /\ UNCHANGED << config_vars, format_vars, filter_vars, bag_vars, ok_calls, text_vars, sample_vars, property_counter_types, sampling,
                    phase, includes_qualifiers, raw_results, wmi_connections,
                    call_vars, call_queries, qualifier_queries >>

\* "raw_results = connection.ExecQuery(wql, "WQL", query_flags)" returns
ExecQuery(s, rows) ==
    /\ s \in samplers
    /\ pc[s] = "exec"
    /\ raw_results' = [raw_results EXCEPT ![s] = rows]
    /\ pc' = [pc EXCEPT ![s] = "release"]
    /\ last_read' = NoRead
    /\ UNCHANGED << config_vars, format_vars, filter_vars, bag_vars, ok_calls, text_vars, sample_vars, property_counter_types, sampling,
                    phase, includes_qualifiers, connection, results, pool_vars,
                    call_vars, call_queries, call_outcome, qualifier_queries,
                    last_query >>

\* ExecQuery raises e inside the with block: the exception is thrown into
\* the generator at "yield connection", which has no try/finally, so the
\* append after the yield is skipped and the local connection is dropped
ExecQueryRaises(s, e) ==
    /\ s \in samplers
    /\ pc[s] = "exec"
    /\ connection' = [connection EXCEPT ![s] = 0]
    /\ Raise(s, e)
    /\ last_read' = NoRead
    /\ UNCHANGED << config_vars, format_vars, filter_vars, bag_vars, ok_calls, text_vars, sample_vars, property_counter_types, sampling,
                    phase, includes_qualifiers, raw_results, pool_vars,
                    call_vars, call_queries, qualifier_queries >>

\* ExecQuery never returns: nothing in the sampler bounds the call (the
\* timeout wrapper of __init__ is commented out), so the thread stays here
ExecQueryHangs(s) ==
    /\ s \in samplers
    /\ pc[s] = "exec"
    /\ pc' = [pc EXCEPT ![s] = "hung"]
    /\ last_read' = NoRead
    /\ UNCHANGED << config_vars, format_vars, filter_vars, bag_vars, ok_calls, text_vars, sample_vars, property_counter_types, sampling,
                    phase, includes_qualifiers, connection, raw_results,
                    results, pool_vars, call_vars, call_queries, call_outcome,
                    qualifier_queries, last_query >>

\* get_connection after the yield:
\* "self._wmi_connections[self.connection_key].append(connection)"
Release(s) ==
    /\ s \in samplers
    /\ pc[s] = "release"
    /\ wmi_connections' = [wmi_connections EXCEPT
                             ![connection_key[s]] = Append(@, connection[s])]
    /\ connection' = [connection EXCEPT ![s] = 0]
    /\ pc' = [pc EXCEPT ![s] = "parse"]
    /\ last_read' = NoRead
    /\ UNCHANGED << config_vars, format_vars, filter_vars, bag_vars, ok_calls, text_vars, sample_vars, property_counter_types, sampling,
                    phase, includes_qualifiers, raw_results, results, conn_key,
                    next_conn, call_vars, call_queries, call_outcome,
                    qualifier_queries, last_query >>

\* "results = self._parse_results(raw_results, includes_qualifiers)"
ParseResults(s) ==
    /\ s \in samplers
    /\ pc[s] = "parse"
    /\ results' = [results EXCEPT ![s] = ParsedItems(s, raw_results[s])]
    /\ IF property_counter_types[s].none
       THEN UNCHANGED property_counter_types
       ELSE property_counter_types' = [property_counter_types EXCEPT ![s] =
                SomeTypes(ParsedTypes(raw_results[s], includes_qualifiers[s], @.map))]
    /\ last_query' = [last_query EXCEPT ![s] = "ok"]
    /\ pc' = [pc EXCEPT ![s] = "return"]
    /\ last_read' = NoRead
    /\ UNCHANGED << config_vars, format_vars, filter_vars, bag_vars, ok_calls, text_vars, sample_vars, sampling, phase,
                    includes_qualifiers, connection, raw_results, pool_vars,
                    call_vars, call_queries, call_outcome, qualifier_queries >>

\* the enumeration "for res in raw_results" raises com_error after n rows
\* were parsed: the types cached so far stay, the rows are lost
ParseRaises(s, n) ==
    /\ s \in samplers
    /\ pc[s] = "parse"
    /\ n \in 0..Len(raw_results[s])
    /\ IF property_counter_types[s].none
       THEN UNCHANGED property_counter_types
       ELSE property_counter_types' = [property_counter_types EXCEPT ![s] =
                SomeTypes(ParsedTypes(SubSeq(raw_results[s], 1, n),
                                      includes_qualifiers[s], @.map))]
    /\ Raise(s, "com_error")
    /\ last_read' = NoRead
    /\ UNCHANGED << config_vars, format_vars, filter_vars, bag_vars, ok_calls, text_vars, sample_vars, sampling, phase,
                    includes_qualifiers, connection, raw_results, pool_vars,
                    call_vars, call_queries, qualifier_queries >>

\* _query returns into sample(): "self.current_sample = self._query()",
\* followed after the main query by the else clause
\* "self._sampling = False"
QueryReturn(s) ==
    /\ s \in samplers
    /\ pc[s] = "return"
    /\ current_sample' = [current_sample EXCEPT ![s] = SomeSample(results[s])]
    /\ call_queries' = [call_queries EXCEPT ![s] = Append(@, results[s])]
    /\ IF phase[s] = "boot"
       THEN /\ pc' = [pc EXCEPT ![s] = "shift"]
            /\ UNCHANGED << sampling, call_outcome, ok_calls >>
       ELSE /\ pc' = [pc EXCEPT ![s] = "idle"]
            /\ sampling' = [sampling EXCEPT ![s] = FALSE]
            /\ call_outcome' = [call_outcome EXCEPT ![s] = "ok"]
            /\ ok_calls' = [ok_calls EXCEPT ![s] = @ + 1]
    /\ last_read' = NoRead
    /\ UNCHANGED << config_vars, format_vars, filter_vars, bag_vars, text_vars, previous_sample, property_counter_types,
                    phase, includes_qualifiers, connection, raw_results,
                    results, pool_vars, call_vars, qualifier_queries,
                    last_query >>


\* ------------------------------------------------------------------------
\* _format_property_values and the calculators
\* ------------------------------------------------------------------------
\* the counter types the registry knows; the others make get_calculator
\* raise UndefinedCalculator
DefinedCounterTypes == {1}

\* get_calculator(counter_type)
GetCalculator(counter_type) ==
    IF counter_type \in DefinedCounterTypes THEN "difference" ELSE "UndefinedCalculator"

\* every counter type formatted by get_raw
GetPropertyCalculatorRaw(counter_type) == "get_raw"

\* _get_property_calculator: get_raw unless get_calculator returns
GetPropertyCalculator(counter_type) ==
    IF GetCalculator(counter_type) = "UndefinedCalculator"
    THEN "get_raw"
    ELSE GetCalculator(counter_type)

\* calculator(previous, current, property_name): a value, or an exception
\* of the subscript or of the subtraction
Calculate(calculator, previous, current, name) ==
    IF calculator = "get_raw"
    THEN [res |-> "ok", value |-> current[Lower(name)]]
    ELSE IF ~DictContains(previous, name) \/ ~DictContains(current, name)
    THEN [res |-> "KeyError", value |-> NoneV]
    ELSE IF previous[Lower(name)].t # "float" \/ current[Lower(name)].t # "float"
    THEN [res |-> "TypeError", value |-> NoneV]
    ELSE [res |-> "ok",
          value |-> FloatV(current[Lower(name)].n - previous[Lower(name)].n)]

\* "counter_type = self.property_counter_types.get(property_name)" and
\* "if counter_type:": None and 0 are falsy
HasCounterType(types, name) == DictContains(types, name) /\ types[Lower(name)] # 0

\* the formatted value of one property of current
FormatProperty(types, previous, current, name) ==
    IF HasCounterType(types, name)
    THEN Calculate(GetPropertyCalculator(types[Lower(name)]), previous, current, name)
    ELSE [res |-> "ok", value |-> current[Lower(name)]]

\* _format_property_values(previous, current): a new bag with the
\* formatted value of every property of current, or the exception of the
\* first calculator that raised
FormatPropertyValues(types, previous, current) ==
    IF \E k \in DOMAIN current : FormatProperty(types, previous, current, k).res # "ok"
    THEN [res |-> "raised", bag |-> EmptyDict]
    ELSE [res |-> "ok",
          bag |-> [k \in DOMAIN current |->
                      FormatProperty(types, previous, current, k).value]]

\* ------------------------------------------------------------------------
\* __len__, __iter__, __getitem__
\* ------------------------------------------------------------------------
\* indices handed to __getitem__
Indices == -1..2

Min(a, b) == IF a < b THEN a ELSE b

\* python list indexing: list[i] exists for -len <= i < len
InRange(rows, i) == -Len(rows) <= i /\ i < Len(rows)

\* list[i] for an index in range: negative indices count from the end
At(rows, i) == IF i < 0 THEN rows[Len(rows) + i + 1] ELSE rows[i + 1]

\* self._format_property_values(previous, current) of sampler s
FormatPair(s, previous, current) ==
    FormatPropertyValues(property_counter_types[s].map, previous, current)

\* the pairs of izip(previous_sample, current_sample) whose formatting
\* raises
PairsRaising(s) ==
    { i \in 1..Min(Len(previous_sample[s].rows), Len(current_sample[s].rows)) :
         FormatPair(s, previous_sample[s].rows[i], current_sample[s].rows[i]).res # "ok" }

FirstOf(S) == CHOOSE i \in S : \A j \in S : i <= j

\* outcome of len(sampler): the guard of __len__, then len() of the
\* current sample, a TypeError when that is still None
LenOutcome(s) ==
    IF sampling[s] THEN [res |-> "InvalidState", n |-> 0]
    ELSE IF current_sample[s].none THEN [res |-> "TypeError", n |-> 0]
    ELSE [res |-> "ok", n |-> Len(current_sample[s].rows)]

\* outcome of a full iteration of the sampler: n is the number of objects
\* yielded; izip stops at the shorter of the two samples, the iteration
\* at the first pair whose formatting raises
IterOutcome(s) ==
    IF sampling[s] THEN [res |-> "InvalidState", n |-> 0]
    ELSE IF is_raw_perf_class[s]
    THEN IF previous_sample[s].none \/ current_sample[s].none
         THEN [res |-> "TypeError", n |-> 0]
         ELSE IF PairsRaising(s) # {}
         THEN [res |-> "CalculatorError", n |-> FirstOf(PairsRaising(s)) - 1]
         ELSE [res |-> "ok", n |-> Min(Len(previous_sample[s].rows),
                                       Len(current_sample[s].rows))]
    ELSE IF current_sample[s].none THEN [res |-> "TypeError", n |-> 0]
         ELSE [res |-> "ok", n |-> Len(current_sample[s].rows)]

\* outcome of sampler[i]: __getitem__ has no guard on self._sampling
GetItemOutcome(s, i) ==
    IF is_raw_perf_class[s]
    THEN IF previous_sample[s].none THEN [res |-> "TypeError", n |-> 0]
         ELSE IF ~InRange(previous_sample[s].rows, i) THEN [res |-> "IndexError", n |-> 0]
         ELSE IF current_sample[s].none THEN [res |-> "TypeError", n |-> 0]
         ELSE IF ~InRange(current_sample[s].rows, i) THEN [res |-> "IndexError", n |-> 0]
         ELSE IF FormatPair(s, At(previous_sample[s].rows, i),
                               At(current_sample[s].rows, i)).res # "ok"
         THEN [res |-> "CalculatorError", n |-> 0]
         ELSE [res |-> "ok", n |-> 1]
    ELSE IF current_sample[s].none THEN [res |-> "TypeError", n |-> 0]
         ELSE IF ~InRange(current_sample[s].rows, i) THEN [res |-> "IndexError", n |-> 0]
         ELSE [res |-> "ok", n |-> 1]

Read(op, s, i, out) ==
    /\ s \in samplers
    /\ last_read' = [op |-> op, s |-> s, index |-> i, sampling |-> sampling[s],
                     res |-> out.res, n |-> out.n]
    /\ UNCHANGED << config_vars, format_vars, filter_vars, bag_vars, ok_calls, text_vars, sample_vars, property_counter_types, sampling,
                    pc, phase, includes_qualifiers, connection, raw_results,
                    results, pool_vars, call_vars, call_queries, call_outcome,
                    qualifier_queries, last_query >>

\* len(sampler)
Length(s) == Read("length", s, 0, LenOutcome(s))

\* list(sampler)
Iterate(s) == Read("iterate", s, 0, IterOutcome(s))

\* sampler[i]
GetItem(s, i) == Read("index", s, i, GetItemOutcome(s, i))

\* ------------------------------------------------------------------------
\* Specifications
\* ------------------------------------------------------------------------
\* one step of the thread running sampler s, which starts at most limit
\* sample() calls, the provider answering from the given result sets
SampleStep(s, answers, limit) ==
    \/ SampleBegin(s, limit)
    \/ Shift(s)
    \/ QueryBegin(s)
    \/ CheckAvailable(s)
    \/ PopConnection(s)
    \/ \E ok \in BOOLEAN : ConnectServer(s, ok)
    \/ \E rows \in answers : ExecQuery(s, rows)
    \/ \E e \in {"com_error", "TimeoutException"} : ExecQueryRaises(s, e)
    \/ ExecQueryHangs(s)
    \/ Release(s)
    \/ ParseResults(s)
    \/ \E n \in 0..2 : ParseRaises(s, n)
    \/ QueryReturn(s)

ReadStep(s) ==
    \/ Length(s)
    \/ Iterate(s)
    \/ \E i \in Indices : GetItem(s, i)

Next == \E s \in Samplers : SampleStep(s, ProviderResults, MaxCalls) \/ ReadStep(s)

Spec == Init /\ [][Next]_vars

\* the thread of a sampler keeps running while it has a step to take
FairSpec == Spec /\ \A s \in Samplers : WF_vars(SampleStep(s, ProviderResults, MaxCalls))

NextPool == \E s \in Samplers : SampleStep(s, PoolResults, MaxPoolCalls)

PoolSpec == InitPool /\ [][NextPool]_vars


\* ------------------------------------------------------------------------
\* _format_filter on its own
\* ------------------------------------------------------------------------
InitFilter ==
    /\ samplers = {}
    /\ InitState
    /\ \A s \in Samplers :
          /\ ~is_raw_perf_class[s]
          /\ connection_key[s] = "k1"
          /\ sampler_filters[s] = <<>>
    /\ \E n \in 0..MaxGroups : filters \in [1..n -> FilterGroups]
    /\ and_props \in { <<>>, << "name" >> }
    /\ clause = <<>>
    /\ filter_pc = "input"
    /\ bag = EmptyDict
    /\ bag_log = <<>>
    /\ bag_op = NoBagOp

\* the call _format_filter(filters, and_props)
FormatFilterCall ==
    /\ filter_pc = "input"
    /\ clause' = FormatFilter(filters, and_props)
    /\ filter_pc' = "done"
    /\ UNCHANGED << config_vars, format_vars, bag_vars, ok_calls, text_vars, sample_vars,
                    property_counter_types,
                    sampling, pc, phase, includes_qualifiers, connection,
                    raw_results, results, pool_vars, call_vars, call_queries,
                    call_outcome, qualifier_queries, last_query, last_read,
                    filters, and_props >>

NextFilter == FormatFilterCall

FilterSpec == InitFilter /\ [][NextFilter]_vars


\* ------------------------------------------------------------------------
\* _format_property_values on its own
\* ------------------------------------------------------------------------
\* the bags and the counter-type caches handed to it: properties val and
\* name, each there or not; values None and two floats; counter types 0
\* (falsy), 1 (known to the registry) and 2 (unknown to it)
FormatKeys == {"val", "name"}

FormatValues == {NoneV, FloatV(1), FloatV(3)}

FormatBags == UNION { [K -> FormatValues] : K \in SUBSET FormatKeys }

FormatTypes == UNION { [K -> 0..2] : K \in SUBSET FormatKeys }

\* a raw sampler holding a previous and a current sample of one bag each
InitFormat ==
    /\ samplers = {1}
    /\ is_raw_perf_class = [s \in Samplers |-> s = 1]
    /\ connection_key = [s \in Samplers |-> "k1"]
    /\ \E previous \in FormatBags, current \in FormatBags, types \in FormatTypes :
          /\ previous_sample = [s \in Samplers |->
                IF s = 1 THEN SomeSample(<< previous >>) ELSE NoSample]
          /\ current_sample = [s \in Samplers |->
                IF s = 1 THEN SomeSample(<< current >>) ELSE NoSample]
          /\ property_counter_types = [s \in Samplers |->
                IF s = 1 THEN SomeTypes(types) ELSE NoTypes]
    /\ sampling = [s \in Samplers |-> FALSE]
    /\ pc = [s \in Samplers |-> "idle"]
    /\ phase = [s \in Samplers |-> "main"]
    /\ includes_qualifiers = [s \in Samplers |-> FALSE]
    /\ connection = [s \in Samplers |-> 0]
    /\ raw_results = [s \in Samplers |-> <<>>]
    /\ results = [s \in Samplers |-> <<>>]
    /\ wmi_connections = [k \in Keys |-> <<>>]
    /\ conn_key = <<>>
    /\ next_conn = 1
    /\ calls = [s \in Samplers |-> 0]
    /\ call_previous = [s \in Samplers |-> NoSample]
    /\ call_current = [s \in Samplers |-> NoSample]
    /\ call_queries = [s \in Samplers |-> <<>>]
    /\ call_outcome = [s \in Samplers |-> "none"]
    /\ qualifier_queries = [s \in Samplers |-> 0]
    /\ last_query = [s \in Samplers |-> "none"]
    /\ last_read = NoRead
    /\ ok_calls = [s \in Samplers |-> 0]
    /\ sampler_filters = [s \in Samplers |-> <<>>]
    /\ formatted_filters = [s \in Samplers |-> NoClause]
    /\ query_filters = [s \in Samplers |-> NoClause]
    /\ formatted = NoFormat
    /\ NoFilter

\* the call self._format_property_values(self.previous_sample[0],
\* self.current_sample[0])
FormatCall(s) ==
    /\ s \in samplers
    /\ formatted = NoFormat
    /\ formatted' = FormatPropertyValues(property_counter_types[s].map,
                                         previous_sample[s].rows[1],
                                         current_sample[s].rows[1])
    /\ UNCHANGED << config_vars, filter_vars, bag_vars, ok_calls, text_vars,
                    sample_vars, property_counter_types, sampling, pc, phase,
                    includes_qualifiers, connection, raw_results, results,
                    pool_vars, call_vars, call_queries, call_outcome,
                    qualifier_queries, last_query, last_read >>

NextFormat == \E s \in Samplers : FormatCall(s)

FormatSpec == InitFormat /\ [][NextFormat]_vars


\* ------------------------------------------------------------------------
\* Properties
\* ------------------------------------------------------------------------
\* a sample() call of s has ended, normally or with the given exception
Ended(s, how) == s \in samplers /\ pc[s] = "idle" /\ call_outcome[s] = how

\* connection c sits in the free-list of the key it was connected for
InFreeList(c) ==
    \E i \in 1..Len(wmi_connections[conn_key[c]]) : wmi_connections[conn_key[c]][i] = c

\* C1: whenever a sample() call has completed, normally or by raising
\* TimeoutException, _sampling is False, and a following length() or
\* iterate() does not fail with the "sampling in progress" error.
C1_IdleAfterSample ==
    \A s \in samplers :
        (Ended(s, "ok") \/ Ended(s, "TimeoutException")) =>
            /\ ~sampling[s]
            /\ (last_read.s = s /\ last_read.op \in {"length", "iterate"})
                   => last_read.res # "InvalidState"

\* C2: when sample() ends by raising TimeoutException, previous_sample and
\* current_sample are what they were at the entry of that call.
C2_TimeoutKeepsSamples ==
    \A s \in samplers :
        Ended(s, "TimeoutException") =>
            /\ previous_sample[s] = call_previous[s]
            /\ current_sample[s] = call_current[s]

\* C3: every connection acquired inside a query is back in the free-list of
\* its key, exactly once, when the query has ended: a connection is in its
\* free-list or held by a running query, never neither and never twice.
C3_ConnectionsReleased ==
    \A c \in 1..(next_conn - 1) :
        /\ InFreeList(c) \/ \E s \in samplers : connection[s] = c
        /\ Cardinality({ i \in 1..Len(wmi_connections[conn_key[c]]) :
                            wmi_connections[conn_key[c]][i] = c }) <= 1

\* C4: a length(), iterate() or index(i) made while _sampling is True
\* returns no data; length() and iterate() fail with the sampling error.
\* (An index(i) that fails for another reason is not held against the
\* claim.)
C4_NoReadWhileSampling ==
    (last_read.op # "none" /\ last_read.sampling) =>
        /\ last_read.res # "ok"
        /\ last_read.op \in {"length", "iterate"} => last_read.res = "InvalidState"

\* the first sample() call of a raw sampler has returned normally
FirstRawSampleDone(s) == is_raw_perf_class[s] /\ calls[s] = 1 /\ Ended(s, "ok")

\* C5, as stated: the first sample() on a raw class issues exactly two
\* queries and leaves previous == current, both the second query's result.
C5_BootstrapFillsBoth ==
    \A s \in samplers :
        FirstRawSampleDone(s) =>
            /\ Len(call_queries[s]) = 2
            /\ previous_sample[s] = current_sample[s]
            /\ current_sample[s] = SomeSample(call_queries[s][2])

\* C5, amended: the first sample() on a raw class, when it returns
\* normally, has issued exactly two queries; previous is the result of the
\* first (bootstrap) query and current the result of the second.
C5_BootstrapThenSample ==
    \A s \in samplers :
        FirstRawSampleDone(s) =>
            /\ Len(call_queries[s]) = 2
            /\ previous_sample[s] = SomeSample(call_queries[s][1])
            /\ current_sample[s] = SomeSample(call_queries[s][2])

C5_Witness ==
    \E s \in samplers :
        /\ FirstRawSampleDone(s)
        /\ Len(call_queries[s]) = 2
        /\ call_queries[s][1] # call_queries[s][2]
        /\ call_queries[s][1] # <<>>

\* C6: a provider fault (com_error) raised while executing a query never
\* propagates: the query returns the empty list, sample() completes
\* normally with it stored, and the only exception sample() ends with is
\* TimeoutException.
C6_FaultDegrades ==
    \A s \in samplers :
        /\ (pc[s] = "return" /\ last_query[s] = "com_error") => results[s] = <<>>
        /\ call_outcome[s] \in {"none", "running", "ok", "TimeoutException"}
        /\ (Ended(s, "ok") /\ last_query[s] = "com_error")
               => current_sample[s] = SomeSample(<<>>)

C6_Witness ==
    \E s \in samplers :
        /\ Ended(s, "ok")
        /\ last_query[s] = "com_error"
        /\ current_sample[s] = SomeSample(<<>>)
        /\ Truthy(previous_sample[s])

\* C7: a sampler runs at most one query with the amended-qualifiers flag,
\* a sampler on a non-raw class none; and no step of any query changes or
\* drops a counter type that is cached.
C7_QualifiersOnce ==
    /\ [](\A s \in samplers :
            /\ qualifier_queries[s] <= 1
            /\ ~is_raw_perf_class[s] => qualifier_queries[s] = 0)
    /\ [][\A s \in samplers :
            \A k \in DOMAIN property_counter_types[s].map :
                /\ ~property_counter_types'[s].none
                /\ k \in DOMAIN property_counter_types'[s].map
                /\ property_counter_types'[s].map[k] = property_counter_types[s].map[k]]_vars

C7_Witness ==
    \E s \in samplers :
        /\ is_raw_perf_class[s]
        /\ qualifier_queries[s] = 1
        /\ calls[s] >= 2
        /\ Ended(s, "ok")
        /\ ~includes_qualifiers[s]
        /\ "val" \in DOMAIN property_counter_types[s].map
        /\ property_counter_types[s].map["val"] = 1
        /\ current_sample[s] = SomeSample(ParsedItems(s, <<RowA, RowB>>))

\* C8: with several samplers sharing the connection cache, no acquire
\* fails because the free-list was emptied between its check and its pop,
\* and no connection is lent to two samplers at once.
C8_PoolThreadSafe ==
    /\ \A s \in samplers : call_outcome[s] # "IndexError"
    /\ \A s1 \in samplers : \A s2 \in samplers :
          (connection[s1] # 0 /\ connection[s1] = connection[s2]) => s1 = s2

\* C9: if the provider call of a query never returns, sample() eventually
\* ends with TimeoutException.
C9_HungCallTimesOut ==
    \A s \in Samplers :
        (pc[s] = "hung") ~> Ended(s, "TimeoutException")

\* ---- filter compiler ----
\* parentheses of the clause: never more closed than opened, all closed at
\* the end
RECURSIVE Depth(_, _)
Depth(toks, d) ==
    IF d < 0 THEN -1
    ELSE IF toks = <<>> THEN d
    ELSE Depth(Tail(toks),
               IF Head(toks).k = "(" THEN d + 1
               ELSE IF Head(toks).k = ")" THEN d - 1 ELSE d)

Balanced(toks) == Depth(toks, 0) = 0

\* no AND/OR without a comparison or a group on each side
NoDangling(toks) ==
    \A i \in 1..Len(toks) :
        toks[i].k \in {"AND", "OR"} =>
            /\ i > 1 /\ toks[i - 1].k \in {"cmp", ")"}
            /\ i < Len(toks) /\ toks[i + 1].k \in {"cmp", "("}

\* C10: for every FilterSpec the clause has balanced parentheses and no
\* dangling AND or OR; an empty FilterSpec yields the empty string.
C10_ClauseWellFormed ==
    filter_pc = "done" =>
        /\ Balanced(clause)
        /\ NoDangling(clause)
        /\ filters = <<>> => clause = <<>>
        /\ filters # <<>> => (clause # <<>> /\ clause[1].k = "WHERE")

\* a group ends its loop with a trailing AND (a value followed by empty
\* lists only), next to a group whose every value is an empty list
C10_Witness ==
    /\ filter_pc = "done"
    /\ Len(filters) = 2
    /\ LET w == GroupClause(filters[1], <<>>, and_props)
       IN  w # <<>> /\ w[Len(w)].k = "AND"
    /\ Len(filters[2]) = 2
    /\ \A i \in 1..2 : filters[2][i].value = List(<<>>)

\* number of tokens of a kind in the clause
CountTok(toks, kind) == Cardinality({ i \in 1..Len(toks) : toks[i].k = kind })

\* the property name contains an entry of and_props, whatever the case
InAndProps(prop) ==
    \E i \in 1..Len(and_props) : and_props[i] = "name" /\ prop = "Name"

\* from position p on, one comparison of prop per element of items, in
\* the order of items, with sep between neighbours
ChainAt(toks, p, prop, items, sep) ==
    /\ p >= 1
    /\ p + 2 * Len(items) - 2 <= Len(toks)
    /\ \A i \in 1..Len(items) :
          LET t == toks[p + 2 * (i - 1)]
          IN  t.k = "cmp" /\ t.prop = prop /\ t.val = items[i].s
    /\ \A i \in 1..(Len(items) - 1) : toks[p + 2 * i - 1].k = sep

\* the (group, item) positions of the non-empty list values of filters
ListPlaces ==
    { gj \in (1..Len(filters)) \X (1..Cardinality(FilterProps)) :
        /\ gj[2] <= Len(filters[gj[1]])
        /\ filters[gj[1]][gj[2]].value.k = "list"
        /\ filters[gj[1]][gj[2]].value.items # <<>> }

\* the comparisons filters asks for: one per literal or tuple value, one
\* per element of a list value
WantedComparisons ==
    { gji \in (1..Len(filters)) \X (1..Cardinality(FilterProps)) \X (1..Len(ListItems)) :
        /\ gji[2] <= Len(filters[gji[1]])
        /\ LET v == filters[gji[1]][gji[2]].value
           IN  gji[3] <= (IF v.k = "list" THEN Len(v.items) ELSE 1) }

\* C11: a non-empty list value compiles, under a property that contains no
\* and_props entry, to one parenthesised sub-clause of per-element
\* comparisons joined with OR, and under a property that contains one, to
\* an unparenthesised chain joined with AND; one comparison per element,
\* in list order.
C11_ListExpansion ==
    filter_pc = "done" =>
        /\ \A gj \in ListPlaces :
              LET it == filters[gj[1]][gj[2]]
                  n == Len(it.value.items)
              IN  IF InAndProps(it.prop)
                  THEN \E p \in 1..Len(clause) :
                          ChainAt(clause, p, it.prop, it.value.items, "AND")
                  ELSE \E p \in 2..Len(clause) :
                          /\ clause[p - 1].k = "("
                          /\ ChainAt(clause, p, it.prop, it.value.items, "OR")
                          /\ p + 2 * n - 1 <= Len(clause)
                          /\ clause[p + 2 * n - 1].k = ")"
        /\ CountTok(clause, "(") =
              Len(filters) + Cardinality({ gj \in ListPlaces :
                                ~InAndProps(filters[gj[1]][gj[2]].prop) })
        /\ CountTok(clause, "cmp") = Cardinality(WantedComparisons)

\* one group with a two-element list under an and_props property and a
\* two-element list under another property
C11_Witness ==
    /\ filter_pc = "done"
    /\ and_props = << "name" >>
    /\ \E g \in 1..Len(filters) :
          /\ Len(filters[g]) = 2
          /\ \A j \in 1..2 : filters[g][j].value = List(SubSeq(ListItems, 1, 2))

\* ------------------------------------------------------------------------
\* CaseInsensitiveDict on its own
\* ------------------------------------------------------------------------
\* the keys used on the bag, in their casings, and the values stored
BagKeys == {"Val", "VAL", "val", "Name", "name"}

BagValues == {IntV(1), IntV(2)}

BagFrame ==
    UNCHANGED << config_vars, format_vars, filter_vars, ok_calls, text_vars, sample_vars,
                 property_counter_types,
                 sampling, pc, phase, includes_qualifiers, connection,
                 raw_results, results, pool_vars, call_vars, call_queries,
                 call_outcome, qualifier_queries, last_query, last_read >>

\* bag[key] = value
BagSetItem(key, value) ==
    /\ Len(bag_log) < MaxBagOps
    /\ bag' = DictSet(bag, key, value)
    /\ bag_log' = Append(bag_log, [key |-> key, value |-> value])
    /\ bag_op' = [op |-> "set", key |-> key, value |-> value, found |-> TRUE]
    /\ BagFrame

\* bag.get(key)
BagGet(key) ==
    /\ bag_op' = [op |-> "get", key |-> key, value |-> DictGet(bag, key),
                  found |-> DictContains(bag, key)]
    /\ UNCHANGED << bag, bag_log >>
    /\ BagFrame

\* key in bag
BagContains(key) ==
    /\ bag_op' = [op |-> "contains", key |-> key, value |-> NoneV,
                  found |-> DictContains(bag, key)]
    /\ UNCHANGED << bag, bag_log >>
    /\ BagFrame

NextBag ==
    \/ \E key \in BagKeys, value \in BagValues : BagSetItem(key, value)
    \/ \E key \in BagKeys : BagGet(key)
    \/ \E key \in BagKeys : BagContains(key)

InitBag ==
    /\ samplers = {}
    /\ InitState
    /\ \A s \in Samplers :
          /\ ~is_raw_perf_class[s]
          /\ connection_key[s] = "k1"
          /\ sampler_filters[s] = <<>>
    /\ NoFilter

BagSpec == InitBag /\ [][NextBag]_vars

\* the casings of one key
Casings == { {"Val", "VAL", "val"}, {"Name", "name"} }

SameKey(a, b) == \E c \in Casings : a \in c /\ b \in c

\* the positions of bag_log that set a casing of key
SetsOf(key) == { i \in 1..Len(bag_log) : SameKey(bag_log[i].key, key) }

Last(S) == CHOOSE i \in S : \A j \in S : j <= i

\* C12: for any two casings of a key, get and contains after a set see the
\* value set last under any casing; a set under another casing replaces
\* the value and leaves one entry for the key; contains is false exactly
\* for the keys no casing of which was set.
C12_BagIgnoresCase ==
    /\ \A key \in BagKeys :
          /\ DictContains(bag, key) <=> SetsOf(key) # {}
          /\ SetsOf(key) # {} => DictGet(bag, key) = bag_log[Last(SetsOf(key))].value
    /\ Cardinality(DOMAIN bag) =
          Cardinality({ c \in Casings : \E i \in 1..Len(bag_log) : bag_log[i].key \in c })
    /\ bag_op.op = "get" =>
          /\ bag_op.found <=> SetsOf(bag_op.key) # {}
          /\ bag_op.found => bag_op.value = bag_log[Last(SetsOf(bag_op.key))].value
    /\ bag_op.op = "contains" => (bag_op.found <=> SetsOf(bag_op.key) # {})

\* "FreeMegabytes"-style: set under one casing, set again under another,
\* read under a third
C12_Witness ==
    /\ Len(bag_log) = 2
    /\ bag_log[1] = [key |-> "Val", value |-> IntV(1)]
    /\ bag_log[2] = [key |-> "VAL", value |-> IntV(2)]
    /\ bag_op = [op |-> "get", key |-> "val", value |-> IntV(2), found |-> TRUE]

\* C13: every sample() call that follows a sample() call which completed
\* normally issues exactly one query, whatever the earlier queries
\* returned.
C13_OneQueryAfterFirst ==
    \A s \in samplers :
        (Ended(s, "ok") /\ ok_calls[s] >= 2) => Len(call_queries[s]) = 1

\* C14: once a query on a raw class has returned a row holding a property
\* with a CounterType qualifier, the counter-type cache holds a tag for
\* that property, whatever the earlier queries of the sampler returned.
C14_TypesDiscovered ==
    \A s \in samplers :
        (is_raw_perf_class[s] /\ pc[s] = "return" /\ last_query[s] = "ok") =>
            \A i \in 1..Len(raw_results[s]) :
                \A j \in 1..Len(raw_results[s][i]) :
                    raw_results[s][i][j].CounterType # 0 =>
                        /\ ~property_counter_types[s].none
                        /\ DictContains(property_counter_types[s].map,
                                        raw_results[s][i][j].Name)

\* ---- connection cache ----
\* every connection in use or in a free-list is where its key says, and no
\* free-list holds a connection twice
PoolKeysRespected ==
    /\ \A s \in samplers :
          connection[s] # 0 => conn_key[connection[s]] = connection_key[s]
    /\ \A k \in Keys : \A i \in 1..Len(wmi_connections[k]) :
          /\ conn_key[wmi_connections[k][i]] = k
          /\ \A j \in 1..Len(wmi_connections[k]) :
                wmi_connections[k][i] = wmi_connections[k][j] => i = j

\* the steps of acquire and release of sampler s
PoolStep(s) ==
    LET k    == connection_key[s]
        free == wmi_connections[k]
    IN  /\ (pc[s] = "connect" /\ pc'[s] = "new") => free = <<>>
        /\ (pc[s] = "connect" /\ pc'[s] = "pop") => free # <<>>
        /\ (pc[s] = "new" /\ pc'[s] = "exec") =>
              /\ connection'[s] = next_conn
              /\ conn_key' = Append(conn_key, k)
              /\ wmi_connections' = wmi_connections
        /\ (pc[s] = "pop" /\ pc'[s] = "exec") =>
              /\ free # <<>>
              /\ connection'[s] = free[Len(free)]
              /\ wmi_connections' = [wmi_connections EXCEPT ![k] =
                                        SubSeq(free, 1, Len(free) - 1)]
              /\ conn_key' = conn_key
        /\ (pc[s] = "release" /\ pc'[s] = "parse") =>
              /\ wmi_connections' = [wmi_connections EXCEPT ![k] =
                                        Append(free, connection[s])]
              /\ connection'[s] = 0
        /\ (connection'[s] # connection[s] /\ connection'[s] # 0) =>
              pc[s] \in {"new", "pop"}

\* C15: acquire on key K connects anew only when its check found K's
\* free-list empty and otherwise pops a connection off K's free-list;
\* release appends the connection to the free-list of the same key; a
\* connection is never used or stored under a key other than the one it
\* was created for, and no free-list holds a connection twice.
C15_PoolKeyed ==
    /\ [] PoolKeysRespected
    /\ [][\A s \in samplers : PoolStep(s)]_vars

\* a sampler runs its second query on the connection it released after
\* its first, while a connection of another key exists
C15_Witness ==
    \E s1 \in samplers : \E s2 \in samplers :
        /\ connection_key[s1] # connection_key[s2]
        /\ Len(call_queries[s1]) = 1
        /\ last_query[s1] = "ok"
        /\ pc[s1] = "exec"
        /\ connection[s1] # 0
        /\ Len(conn_key) = 2
        /\ conn_key[1] # conn_key[2]

\* ---- sample generations ----
\* C16: after a sample() call that completed normally without a bootstrap
\* query, previous_sample is the sample that was current when the call
\* began and current_sample is the result of the one query of the call;
\* nothing else of the earlier samples is kept.
C16_ShiftThenQuery ==
    \A s \in samplers :
        (Ended(s, "ok") /\ Len(call_queries[s]) = 1) =>
            /\ previous_sample[s] = call_current[s]
            /\ current_sample[s] = SomeSample(call_queries[s][1])

\* such a call, begun with two different samples of which the older one
\* is gone afterwards
C16_Witness ==
    \E s \in samplers :
        /\ Ended(s, "ok")
        /\ Len(call_queries[s]) = 1
        /\ ~call_previous[s].none
        /\ ~call_current[s].none
        /\ call_previous[s] # call_current[s]
        /\ call_previous[s] # previous_sample[s]
        /\ call_previous[s] # current_sample[s]

\* ---- formatting ----
\* the two bags and the cache the formatting call of sampler 1 was handed
FormatPrevious == previous_sample[1].rows[1]

FormatCurrent == current_sample[1].rows[1]

FormatCache == property_counter_types[1].map

\* the calculator of the registry can be applied to property k
Calculable(k) ==
    /\ k \in DOMAIN FormatPrevious
    /\ FormatPrevious[k].t = "float"
    /\ FormatCurrent[k].t = "float"

\* what the claim says of a returned bag
FormatResult ==
    /\ formatted.res = "ok" =>
          /\ DOMAIN formatted.bag = DOMAIN FormatCurrent
          /\ \A k \in DOMAIN FormatCurrent :
                IF k \in DOMAIN FormatCache /\ FormatCache[k] \in DefinedCounterTypes
                THEN formatted.bag[k] = FloatV(FormatCurrent[k].n - FormatPrevious[k].n)
                ELSE formatted.bag[k] = FormatCurrent[k]
    /\ formatted.res = "raised" =>
          \E k \in DOMAIN FormatCurrent :
              /\ k \in DOMAIN FormatCache
              /\ FormatCache[k] \in DefinedCounterTypes
              /\ ~Calculable(k)

\* C17: _format_property_values changes neither its two bags nor the
\* stored samples nor the cache; the bag it returns has the keys of the
\* current bag, holds the current raw value of every property without a
\* cached counter type or with one the registry does not know, and the
\* calculator's result (current - previous) for the others.
C17_FormatIsPure ==
    /\ [] FormatResult
    /\ [][formatted' # formatted =>
            UNCHANGED << sample_vars, property_counter_types >>]_vars

\* a returned bag with a calculated property and a passed-through one
C17_Witness ==
    /\ formatted.res = "ok"
    /\ DOMAIN FormatCurrent = FormatKeys
    /\ DOMAIN FormatCache = {"val"}
    /\ FormatCache["val"] = 1
    /\ formatted.bag["val"] = FloatV(2)
    /\ formatted.bag["name"] = FloatV(3)

\* ---- parsed bags ----
\* the provider row holds a property of that name, in whatever casing
Returned(row, name) == \E j \in 1..Len(row) : Lower(row[j].Name) = Lower(name)

\* C18: a query that returned normally yields one bag per provider row;
\* each bag holds every requested property name, case-insensitively, with
\* None for those the row did not return, and holds for every returned
\* property the provider's value, as a float when it is a number.
C18_BagsSeeded ==
    \A s \in samplers :
        (pc[s] = "return" /\ last_query[s] = "ok") =>
            /\ Len(results[s]) = Len(raw_results[s])
            /\ \A i \in 1..Len(results[s]) :
                  LET item == results[s][i]
                      row  == raw_results[s][i]
                  IN  /\ \A n \in 1..Len(PropertyNames(s)) :
                            /\ DictContains(item, PropertyNames(s)[n])
                            /\ ~Returned(row, PropertyNames(s)[n]) =>
                                  item[Lower(PropertyNames(s)[n])] = NoneV
                      /\ \A j \in 1..Len(row) :
                            /\ DictContains(item, row[j].Name)
                            /\ item[Lower(row[j].Name)] =
                                  IF row[j].Value.t \in {"int", "str", "float"}
                                  THEN FloatV(row[j].Value.n)
                                  ELSE row[j].Value

\* a raw query returned two rows spelling the requested property in two
\* casings and leaving the two timestamp properties out
C18_Witness ==
    \E s \in samplers :
        /\ is_raw_perf_class[s]
        /\ pc[s] = "return"
        /\ last_query[s] = "ok"
        /\ raw_results[s] = << RowA, RowB >>
        /\ results[s][2]["val"] = FloatV(2)
        /\ results[s][2]["timestamp_sys100ns"] = NoneV

\* ---- formatted_filters ----
\* the clause of the query text is the compiled form of self.filters
QueryUsesFilters ==
    \A s \in samplers :
        ~query_filters[s].none =>
            query_filters[s].clause = FormatFilter(sampler_filters[s], SamplerAndProps)

\* C19: no step of a sampler changes its self.filters, and once a query
\* text was built every later query text of the sampler holds the same
\* clause, the compiled form of the filters given at construction.
C19_FiltersKept ==
    /\ [] QueryUsesFilters
    /\ [][\A s \in samplers :
            /\ sampler_filters'[s] = sampler_filters[s]
            /\ ~query_filters[s].none => query_filters'[s] = query_filters[s]]_vars

\* a sampler constructed with a filter has built the text of a query
\* after an earlier sample() call completed
C19_Witness ==
    \E s \in samplers :
        /\ sampler_filters[s] # <<>>
        /\ ok_calls[s] >= 1
        /\ pc[s] = "connect"
        /\ query_filters[s].clause # <<>>

\* ---- reads of an idle sampler ----
\* the last read was made on sampler s, idle after a sample() call that
\* completed normally
ReadWhenIdle(s, op) ==
    /\ last_read.op = op
    /\ last_read.s = s
    /\ pc[s] = "idle"
    /\ ~sampling[s]
    /\ ok_calls[s] >= 1

\* C20: on an idle sampler with a completed sample() call behind it, a
\* full iteration yields len(sampler) objects, and sampler[i] with i >= 0
\* returns an object exactly when i < len(sampler), for raw classes too.
C20_ReadsAgree ==
    \A s \in samplers :
        /\ (ReadWhenIdle(s, "iterate") /\ last_read.res = "ok") =>
              last_read.n = Len(current_sample[s].rows)
        /\ (ReadWhenIdle(s, "index") /\ last_read.index >= 0
              /\ last_read.res \in {"ok", "IndexError"}) =>
              (last_read.res = "ok" <=> last_read.index < Len(current_sample[s].rows))

====
